---- MODULE Spec2Model ----
(***************************************************************************)
(* SpectraLearnPredict2: the orchestration of slp/slp_io.py                *)
(* (LearnPredictFile, LearnPredictBatch / processSingleBatch,              *)
(* LearnPredictMap) and the component count of slp/slp_pca.py (runPCA).    *)
(*                                                                         *)
(* The learners, loaders and preprocessors are external: a call to one of  *)
(* them is an event of the log that either returns or raises.  What the    *)
(* orchestrator itself decides is modelled statement by statement: which   *)
(* names a function body has bound when it reads them (a read of an        *)
(* unbound name raises NameError), which object a name refers to, what is  *)
(* appended to the summary file and to the map sink, and in what order.    *)
(***************************************************************************)
EXTENDS Integers, Sequences, FiniteSets, TLC

VARIABLES
    conf,      \* the configuration flags read from slp_config (fixed per run)
    input,     \* the run's inputs: training labels, learnFile, directory, map
    pc,        \* position of the main process in the running function
    frame,     \* the main process's locals, event log and outputs
    pcaOut,    \* what runPCA handed to sklearn's PCA
    visited,   \* batch: files of glob('*.txt') the for loop has passed
    task,      \* batch: one processSingleBatch call per dispatched file
    summary    \* batch: the rows of the summary file, in file order

vars == <<conf, input, pc, frame, pcaOut, visited, task, summary>>

----------------------------------------------------------------------------
(* Bounds *)

MaxLabel == 2      \* training labels are drawn from 1..MaxLabel
MaxCl == 3         \* number of training spectra (length of Cl)
MaxPCAcomp == 3    \* largest configured numPCAcomponents
MaxPixels == 2     \* number of pixels of a map

----------------------------------------------------------------------------
(* Model families and values *)

Fam == {"DNNTF", "NN", "SVM", "TF", "Keras", "KM"}

Obj == <<"obj", "", 0>>                 \* an opaque value (matrix, model handle)
ArrRef == <<"arr", "", 0>>              \* a reference to the np.empty array
Ret(fam, i) == <<"ret", fam, i>>        \* what fam's predict returned for pixel i
Uninit == <<"uninit", "", 0>>           \* an element np.empty left unset

Bind(env, names, val) == [n \in (DOMAIN env) \cup {names[j] : j \in DOMAIN names} |->
                            IF \E j \in DOMAIN names : names[j] = n THEN val ELSE env[n]]

AllBound(env, names) == \A j \in DOMAIN names : names[j] \in DOMAIN env

SeqToSet(s) == {s[j] : j \in DOMAIN s}

IsPrefix(s, t) == Len(s) <= Len(t) /\ \A j \in 1..Len(s) : s[j] = t[j]

----------------------------------------------------------------------------
(* Statements of a function body *)

Stmt(k, fn, fam, args, outs) == [k |-> k, fn |-> fn, fam |-> fam, args |-> args, outs |-> outs]

\* outs = fn(args): an external call, which may raise
Call(fn, fam, args, outs) == Stmt("call", fn, fam, args, outs)
\* outs = pure expression over args (os.path.splitext, a list literal)
Let(args, outs) == Stmt("let", "", "", args, outs)
\* someDef.flag = False
SetFlag(flag) == Stmt("set", flag, "", <<>>, <<>>)
\* target, rest = fn(args): the first result is the learner's prediction
CallRet(fn, fam, args, outs) == Stmt("callret", fn, fam, args, outs)
\* target[i], rest = fn(args)
CallStore(fn, fam, args, outs) == Stmt("callstore", fn, fam, args, outs)
\* names = np.empty([X.shape[0]]): one array, every name bound to it
Empty(names) == Stmt("empty", "", "", <<"X">>, names)
\* saveMap(mapFile, model, 'HC', src[i], X[i], Y[i], True)
SaveMap(model, fam, src) == Stmt("savemap", model, fam, <<"mapFile", src, "X", "Y">>, <<>>)
\* plotMaps(X, Y, src, title)
Plot(title, fam, src) == Stmt("plot", title, fam, <<"X", "Y", src>>, <<>>)
\* summaryFile = [f]
RowInit == Stmt("rowinit", "", "", <<"f">>, <<"summaryFile">>)
\* summaryFile.extend([names])
Extend(names) == Stmt("extend", "", "", names, <<>>)

Event(s, i) == [fn |-> s.fn, fam |-> s.fam, args |-> s.args, outs |-> s.outs, i |-> i]

Raise(f, exc) == [f EXCEPT !.raised = exc]

\* One statement executed in frame f; fails: the external callee raises.
ExecCall(f, s, fails) ==
    IF ~AllBound(f.env, s.args) THEN Raise(f, "NameError")
    ELSE LET g == [f EXCEPT !.log = Append(@, Event(s, f.i))]
         IN  IF fails THEN Raise(g, "Error")
             ELSE [g EXCEPT !.env = Bind(@, s.outs, Obj)]

ExecLet(f, s) ==
    IF ~AllBound(f.env, s.args) THEN Raise(f, "NameError")
    ELSE [f EXCEPT !.env = Bind(@, s.outs, Obj)]

ExecSet(f, s) == [f EXCEPT !.cleared = @ \cup {s.fn}]

ExecRowInit(f, s) ==
    IF ~AllBound(f.env, s.args) THEN Raise(f, "NameError")
    ELSE [f EXCEPT !.env = Bind(@, s.outs, Obj), !.row = <<>>]

\* The list literal is evaluated first: an unbound name in it raises.
ExecExtend(f, s) ==
    IF ~AllBound(f.env, s.args \o <<"summaryFile">>) THEN Raise(f, "NameError")
    ELSE [f EXCEPT !.row = @ \o s.args]

\* The callee's first result is bound as fam's prediction for pixel f.i.
ExecCallRet(f, s, fails) ==
    LET g == ExecCall(f, s, fails)
    IN  IF g.raised # "" THEN g
        ELSE [g EXCEPT !.env = Bind(@, <<s.outs[1]>>, Ret(s.fam, f.i))]

\* The right-hand side is evaluated, then the subscripted target is read.
ExecCallStore(f, s, fails) ==
    LET g == ExecCall(f, [s EXCEPT !.outs = Tail(s.outs)], fails)
        target == s.outs[1]
    IN  IF g.raised # "" THEN g
        ELSE IF target \notin DOMAIN g.env THEN Raise(g, "NameError")
        ELSE IF g.env[target] # ArrRef THEN Raise(g, "TypeError")
        ELSE [g EXCEPT !.arr[f.i + 1] = Ret(s.fam, f.i)]

ExecEmpty(f, s) ==
    IF ~AllBound(f.env, s.args) THEN Raise(f, "NameError")
    ELSE [f EXCEPT !.env = Bind(@, s.outs, ArrRef),
                   !.arr = [j \in 1..input.npix |-> Uninit]]

\* src[i] is read first: an element of the array, or, when src names what a
\* predict returned, an element of that (which may not exist: IndexError).
ExecSaveMap(f, s, fails) ==
    LET src == s.args[2]
    IN  IF ~AllBound(f.env, s.args) THEN Raise(f, "NameError")
        ELSE IF f.env[src] # ArrRef /\ fails THEN Raise(f, "IndexError")
        ELSE LET val == IF f.env[src] = ArrRef THEN f.arr[f.i + 1] ELSE f.env[src]
                 g == [f EXCEPT !.log = Append(@, Event(s, f.i))]
             IN  IF fails THEN Raise(g, "Error")
                 ELSE [g EXCEPT !.sink = Append(@, [model |-> s.fn, fam |-> s.fam,
                                                    pred |-> val, i |-> f.i])]

ExecPlot(f, s, fails) ==
    LET src == s.args[3]
    IN  IF ~AllBound(f.env, s.args) THEN Raise(f, "NameError")
        ELSE LET g == [f EXCEPT !.log = Append(@, Event(s, f.i))]
                 data == IF f.env[src] = ArrRef THEN f.arr ELSE <<f.env[src]>>
             IN  IF fails THEN Raise(g, "Error")
                 ELSE [g EXCEPT !.plots = Append(@, [title |-> s.fn, fam |-> s.fam,
                                                     data |-> data])]

Exec(f, s, fails) ==
    CASE s.k = "call" -> ExecCall(f, s, fails)
      [] s.k = "callret" -> ExecCallRet(f, s, fails)
      [] s.k = "callstore" -> ExecCallStore(f, s, fails)
      [] s.k = "empty" -> ExecEmpty(f, s)
      [] s.k = "savemap" -> ExecSaveMap(f, s, fails)
      [] s.k = "plot" -> ExecPlot(f, s, fails)
      [] s.k = "let" -> ExecLet(f, s)
      [] s.k = "set" -> ExecSet(f, s)
      [] s.k = "rowinit" -> ExecRowInit(f, s)
      [] s.k = "extend" -> ExecExtend(f, s)

\* The statements from index k on, in order, until one raises; the external
\* failure, if any, hits statement failAt (0: no callee raises).
RECURSIVE RunStmts(_, _, _, _)
RunStmts(f, stmts, k, failAt) ==
    IF k > Len(stmts) \/ f.raised # "" THEN f
    ELSE RunStmts(Exec(f, stmts[k], k = failAt), stmts, k + 1, failAt)

\* The statements at which something outside the orchestrator may raise
CallsOf(stmts) ==
    {k \in DOMAIN stmts : stmts[k].k \in {"call", "callret", "callstore", "savemap", "plot"}}

NewFrame(argNames) ==
    [env |-> Bind(<<>>, argNames, Obj), log |-> <<>>, cleared |-> {},
     row |-> <<>>, arr |-> <<>>, sink |-> <<>>, plots |-> <<>>, i |-> 0, raised |-> ""]

----------------------------------------------------------------------------
(* Configuration and inputs *)

AllOn == [m \in Fam |-> TRUE]
AllOff == [m \in Fam |-> FALSE]

\* The flags of slp_config the orchestrator reads.  dnntfDef_runKeras is the
\* attribute dnntfDef.runKeras read by LearnPredictMap: "absent" when class
\* dnntfDef defines no such attribute (the read raises AttributeError).
ConfSet(runs, skflows, pcas, customs, ncomps, plots, multis, pmaps, rks) ==
    [run : runs, runSkflowDNNTF : skflows,
     runPCA : pcas, customNumPCAComp : customs, numPCAcomponents : ncomps,
     createTrainingDataPlot : plots, multiProc : multis,
     plotMap : pmaps, dnntfDef_runKeras : rks]

ClSet == UNION {[1..n -> 1..MaxLabel] : n \in 1..MaxCl}

----------------------------------------------------------------------------
(* slp_pca.runPCA: the number of components handed to PCA *)

InsertSorted(u, x) ==
    LET below == SelectSeq(u, LAMBDA y : y < x)
        above == SelectSeq(u, LAMBDA y : y > x)
    IN  below \o <<x>> \o above

\* np.unique: the sorted distinct elements
RECURSIVE np_unique(_)
np_unique(s) ==
    IF s = <<>> THEN <<>>
    ELSE LET u == np_unique(Tail(s))
         IN  IF \E j \in DOMAIN u : u[j] = Head(s) THEN u ELSE InsertSorted(u, Head(s))

\* mutant: the number of training spectra instead of the number of distinct labels
numPCAcomp_len(Cl, customNumPCAComp, numPCAcomponents) ==
    IF customNumPCAComp = FALSE THEN Len(Cl) ELSE numPCAcomponents

numPCAcomp(Cl, customNumPCAComp, numPCAcomponents) ==
    IF customNumPCAComp = FALSE THEN Len(np_unique(Cl)) ELSE numPCAcomponents

runPCAargs == <<"En", "Cl", "A", "YnormXind">>

\* runPCA(En, Cl, A, YnormXind, numPCAcomponents) up to pca.fit(A).transform(A)
runPCA(f, out, Cl, numPCAcomponents, fails) ==
    LET g == [f EXCEPT !.log = Append(@, Event(Call("runPCA", "PCA", runPCAargs, <<>>), f.i))]
        n == numPCAcomp(Cl, conf.customNumPCAComp, numPCAcomponents)
    IN  [frame |-> IF fails THEN Raise(g, "Error") ELSE g,
         out |-> [ran |-> TRUE, n_components |-> n]]

----------------------------------------------------------------------------
(* LearnPredictFile *)

trainArgs == <<"A", "Cl", "A", "Cl", "learnFileRoot">>

DNNTFtrain == IF conf.runSkflowDNNTF = FALSE THEN "trainDNNTF" ELSE "trainDNNTF2"
DNNTFpred == IF conf.runSkflowDNNTF = FALSE THEN "predDNNTF" ELSE "predDNNTF2"

File_read == <<Call("readLearnFile", "", <<"learnFile">>, <<"En", "Cl", "A", "YnormXind">>),
               Let(<<"learnFile">>, <<"learnFileRoot">>)>>

File_readPred == <<Call("readPredFile", "", <<"sampleFile">>, <<"R", "Rx">>)>>

File_preProcess ==
    <<Call("preProcessNormLearningData", "", <<"A", "En", "Cl", "YnormXind">>,
           <<"A", "Cl", "En", "Aorig">>),
      Call("preProcessNormPredData", "", <<"R", "Rx", "En", "YnormXind">>, <<"R", "Rorig">>)>>

File_DNNTF ==
    <<SetFlag("dnntfDef.alwaysImprove"),
      Call(DNNTFtrain, "DNNTF", trainArgs, <<"clf_dnntf", "le_dnntf">>),
      Call(DNNTFpred, "DNNTF", <<"clf_dnntf", "le_dnntf", "R", "Cl">>, <<>>)>>

File_NN ==
    <<Call("trainNN", "NN", trainArgs, <<"clf_nn", "le_nn">>),
      Call("predNN", "NN", <<"clf_nn", "A", "Cl", "R", "le_nn">>, <<>>)>>

File_SVM ==
    <<Call("trainSVM", "SVM", trainArgs, <<"clf_svm", "le_svm">>),
      Call("predSVM", "SVM", <<"clf_svm", "A", "Cl", "R", "le_svm">>, <<>>)>>

File_TF ==
    <<Call("trainTF", "TF", trainArgs, <<>>),
      Call("predTF", "TF", <<"A", "Cl", "R", "learnFileRoot">>, <<>>)>>

File_Keras ==
    <<Call("trainKeras", "Keras", <<"En", "A", "Cl", "A", "Cl", "learnFileRoot">>,
           <<"model_keras", "le_keras">>),
      Call("predKeras", "Keras", <<"model_keras", "le_keras", "R", "Cl">>, <<>>)>>

File_plot == <<Call("plotTrainData", "", <<"A", "En", "R", "learnFileRoot">>, <<>>)>>

File_KM == <<Call("runKMmain", "KM", <<"A", "Cl", "En", "R", "Aorig", "Rorig">>, <<>>)>>

\* mutant: the Keras block ahead of the sklearn network, as processSingleBatch has it
LearnPredictFileOrder_kerasFirst ==
    <<"readLearnFile", "runPCA", "readPredFile", "preProcess",
      "DNNTF", "Keras", "NN", "SVM", "TF", "plotTrainData", "KM", "done">>

\* The order of the blocks in the body of LearnPredictFile
LearnPredictFileOrder ==
    <<"readLearnFile", "runPCA", "readPredFile", "preProcess",
      "DNNTF", "NN", "SVM", "TF", "Keras", "plotTrainData", "KM", "done">>

After(order, here) == order[(CHOOSE j \in DOMAIN order : order[j] = here) + 1]

\* A block `if enabled: stmts` at position here; an exception ends the run.
Block(order, here, enabled, stmts) ==
    /\ pc = here
    /\ IF enabled
       THEN \E failAt \in {0} \cup CallsOf(stmts) :
              LET g == RunStmts(frame, stmts, 1, failAt)
              IN  /\ frame' = g
                  /\ pc' = IF g.raised # "" THEN "crashed" ELSE After(order, here)
       ELSE /\ frame' = frame
            /\ pc' = After(order, here)

FileBlock(here, enabled, stmts) ==
    /\ Block(LearnPredictFileOrder, here, enabled, stmts)
    /\ UNCHANGED <<conf, input, pcaOut, visited, task, summary>>

FileReadLearn == FileBlock("readLearnFile", TRUE, File_read)

FileRunPCA ==
    /\ pc = "runPCA"
    /\ IF conf.runPCA = TRUE
       THEN IF ~AllBound(frame.env, runPCAargs)
            THEN /\ frame' = Raise(frame, "NameError")
                 /\ pc' = "crashed"
                 /\ UNCHANGED pcaOut
            ELSE \E fails \in BOOLEAN :
                   LET r == runPCA(frame, pcaOut, input.Cl, conf.numPCAcomponents, fails)
                   IN  /\ frame' = r.frame
                       /\ pcaOut' = r.out
                       /\ pc' = IF fails THEN "crashed"
                                ELSE After(LearnPredictFileOrder, "runPCA")
       ELSE /\ pc' = After(LearnPredictFileOrder, "runPCA")
            /\ UNCHANGED <<frame, pcaOut>>
    /\ UNCHANGED <<conf, input, visited, task, summary>>

FileReadPred == FileBlock("readPredFile", TRUE, File_readPred)
FilePreProcess == FileBlock("preProcess", TRUE, File_preProcess)
FileDNNTF == FileBlock("DNNTF", conf.run["DNNTF"] = TRUE, File_DNNTF)
FileNN == FileBlock("NN", conf.run["NN"] = TRUE, File_NN)
FileSVM == FileBlock("SVM", conf.run["SVM"] = TRUE, File_SVM)
FileTF == FileBlock("TF", conf.run["TF"] = TRUE, File_TF)
FileKeras == FileBlock("Keras", conf.run["Keras"] = TRUE, File_Keras)
FilePlot == FileBlock("plotTrainData", conf.createTrainingDataPlot = TRUE, File_plot)
FileKM == FileBlock("KM", conf.run["KM"] = TRUE, File_KM)

NoPCA == [ran |-> FALSE, n_components |-> 0]

InitFileOver(confs, cls) ==
    /\ conf \in confs
    /\ input \in [Cl : cls, learnFile : {<<>>}, dir : {{}}, npix : {0}]
    /\ pc = "readLearnFile"
    /\ frame = NewFrame(<<"learnFile", "sampleFile">>)
    /\ pcaOut = NoPCA
    /\ visited = <<>>
    /\ task = <<>>
    /\ summary = <<>>

InitFile ==
    InitFileOver(ConfSet([Fam -> BOOLEAN], BOOLEAN, BOOLEAN, {FALSE}, {MaxPCAcomp},
                         BOOLEAN, {FALSE}, {AllOff}, {"absent"}),
                 {[j \in 1..MaxCl |-> 1]})

InitPCA ==
    InitFileOver(ConfSet({AllOn, AllOff}, {FALSE}, BOOLEAN, BOOLEAN, 1..MaxPCAcomp,
                         {FALSE}, {FALSE}, {AllOff}, {"absent"}),
                 ClSet)

NextFile ==
    \/ FileReadLearn \/ FileRunPCA \/ FileReadPred \/ FilePreProcess
    \/ FileDNNTF \/ FileNN \/ FileSVM \/ FileTF \/ FileKeras \/ FilePlot \/ FileKM

SpecFile == InitFile /\ [][NextFile]_vars

SpecPCA == InitPCA /\ [][NextFile]_vars

----------------------------------------------------------------------------
(* LearnPredictBatch and processSingleBatch *)

MaxFiles == 2      \* prediction files n.txt, n in 1..MaxFiles, beside the training file
NumCores == 2      \* sysDef.numCores, the size of the worker pool

\* A file name is <<stem, extension>>; a path is the sequence of its
\* components, the file name last.  glob('*.txt') yields bare names.
TrainName == <<0, "txt">>
Dir(n) == {TrainName, <<1, "dat">>} \cup {<<j, "txt">> : j \in 1..n}
\* glob.glob('*.txt'): the matching names as bare paths, here in the order of
\* their stems (the order of a directory listing is fixed for one run).
glob_txt(dir) ==
    LET stems == {d[1] : d \in {e \in dir : e[2] = "txt"}}
        nth[k \in 1..Cardinality(stems)] ==
            IF k = 1 THEN CHOOSE x \in stems : \A y \in stems : x <= y
            ELSE CHOOSE x \in stems : x > nth[k - 1] /\ \A y \in stems : y > nth[k - 1] => x <= y
    IN  [k \in 1..Cardinality(stems) |-> << <<nth[k], "txt">> >>]
PathForms(name) == {<<name>>, <<".", name>>}     \* 'train.txt', './train.txt'
FileOf(path) == path[Len(path)]                  \* the file a path of the working directory names

HeaderRow(learnFile) == [kind |-> "header", f |-> learnFile, fields |-> <<>>]
DataRow(f, fields) == [kind |-> "data", f |-> f, fields |-> fields]

\* makeHeaderSummary(summary_filename, learnFile): one header row naming the training file
makeHeaderSummary(file, learnFile) == Append(file, HeaderRow(learnFile))

Batch_header == <<Let(<<>>, <<"summary_filename">>),
                  Call("makeHeaderSummary", "", <<"summary_filename", "learnFile">>, <<>>)>>

Batch_read ==
    <<Call("readLearnFile", "", <<"learnFile">>, <<"En", "Cl", "A", "YnormXind">>),
      Call("preProcessNormLearningData", "", <<"A", "En", "Cl", "YnormXind">>,
           <<"A", "Cl", "En", "Aorig">>)>>

Single_read ==
    <<Call("readPredFile", "", <<"f">>, <<"R", "Rx">>),
      RowInit,
      Call("preProcessNormPredData", "", <<"R", "Rx", "En", "YnormXind">>, <<"R", "Rorig">>),
      Let(<<"learnFile">>, <<"learnFileRoot">>)>>

Single_DNNTF ==
    <<Call(DNNTFtrain, "DNNTF", trainArgs, <<"clf_dnntf", "le_dnntf">>),
      Call(DNNTFpred, "DNNTF", <<"clf_dnntf", "le_dnntf", "R", "Cl">>,
           <<"dnntfPred", "dnntfProb">>),
      Extend(<<"dnntfPred", "dnntfProb">>),
      SetFlag("dnntfDef.alwaysRetrain")>>

Single_Keras ==
    <<Call("trainKeras", "Keras", <<"En", "A", "Cl", "A", "Cl", "learnFileRoot">>,
           <<"model", "le_keras">>),
      Call("predKeras", "Keras", <<"model_keras", "le_keras", "R", "Cl">>,
           <<"kerasPred", "kerasProb">>),
      Extend(<<"kerasPred", "kerasProb">>)>>

Single_NN ==
    <<Call("trainNN", "NN", trainArgs, <<"clf_nn", "le_nn">>),
      Call("predNN", "NN", <<"clf_nn", "A", "Cl", "R", "le_nn">>, <<"nnPred", "nnProb">>),
      Extend(<<"nnPred", "nnProb">>),
      SetFlag("nnDef.alwaysRetrain")>>

Single_SVM ==
    <<Call("trainSVM", "SVM", trainArgs, <<"clf_svm", "le_svm">>),
      Call("predSVM", "SVM", <<"clf_svm", "A", "Cl", "En", "R", "le_svm">>,
           <<"svmPred", "svmProb">>),
      Extend(<<"svmPred", "svmProb">>),
      SetFlag("svmDef.alwaysRetrain")>>

Single_TF ==
    <<Call("trainTF", "TF", trainArgs, <<>>),
      Call("predTF", "TF", <<"A", "Cl", "R", "learnFileRoot">>, <<"tfPred", "tfProb">>),
      Extend(<<"tfPred", "tfProb", "tfAccur">>),
      SetFlag("tfDef.tfalwaysRetrain")>>

Single_KM ==
    <<SetFlag("kmDef.plotKM"),
      Call("runKMmain", "KM", <<"A", "Cl", "En", "R", "Aorig", "Rorig">>, <<"kmPred">>),
      Extend(<<"kmPred">>)>>

\* The order of the family blocks in the body of processSingleBatch
processSingleBatchOrder == <<"DNNTF", "Keras", "NN", "SVM", "TF", "KM">>

Single_of(m) ==
    CASE m = "DNNTF" -> Single_DNNTF
      [] m = "Keras" -> Single_Keras
      [] m = "NN" -> Single_NN
      [] m = "SVM" -> Single_SVM
      [] m = "TF" -> Single_TF
      [] m = "KM" -> Single_KM

RECURSIVE Single_families(_)
Single_families(k) ==
    IF k > Len(processSingleBatchOrder) THEN <<>>
    ELSE (IF conf.run[processSingleBatchOrder[k]] = TRUE
          THEN Single_of(processSingleBatchOrder[k]) ELSE <<>>) \o Single_families(k + 1)

\* processSingleBatch up to the `with open(...)`
Single_body == Single_read \o Single_families(1)

Single_args == <<"f", "En", "Cl", "A", "Aorig", "YnormXind", "summary_filename", "learnFile">>

\* A call of processSingleBatch: its status and, while it runs, its locals.
\* A call that returned or raised has no locals left.
NewTask(st) == [st |-> st, frame |-> NewFrame(Single_args)]
EndTask(st, exc) == [st |-> st, frame |-> Raise(NewFrame(<<>>), exc)]

Active == {"running", "computed", "opened", "written"}
Ended == {"done", "failed"}

\* mutant: the row built so far is flushed when the exception leaves the call
Unwind_partial(file, f, fr) == Append(file, DataRow(f, fr.row))

\* An exception leaves processSingleBatch before line 227: nothing is written.
Unwind(file, f, fr) == file

\* mutant: the header is written after the pool has been joined
LearnPredictBatchOrder_headerLast ==
    <<"readLearnFile", "loop", "join", "makeHeaderSummary", "done">>

\* The order of the steps of LearnPredictBatch
LearnPredictBatchOrder ==
    <<"makeHeaderSummary", "readLearnFile", "loop", "join", "done">>

BatchHeader ==
    /\ pc = "makeHeaderSummary"
    /\ \E fails \in BOOLEAN :
         LET g == RunStmts(frame, Batch_header, 1, IF fails THEN 2 ELSE 0)
         IN  /\ frame' = g
             /\ pc' = IF g.raised # "" THEN "crashed"
                      ELSE After(LearnPredictBatchOrder, "makeHeaderSummary")
             /\ summary' = IF g.raised # "" THEN summary
                           ELSE makeHeaderSummary(summary, input.learnFile)
    /\ UNCHANGED <<conf, input, pcaOut, visited, task>>

BatchReadLearn ==
    /\ Block(LearnPredictBatchOrder, "readLearnFile", TRUE, Batch_read)
    /\ UNCHANGED <<conf, input, pcaOut, visited, task, summary>>

Unvisited == Len(visited) < Len(glob_txt(input.dir))

\* One iteration of `for f in glob.glob('*.txt')`: the pool branch queues the
\* call (apply_async), the sequential branch makes it.
BatchLoopNext ==
    /\ pc = "loop"
    /\ Unvisited
    /\ LET f == glob_txt(input.dir)[Len(visited) + 1]
       IN
         /\ visited' = Append(visited, f)
         /\ IF f # input.learnFile
            THEN IF conf.multiProc = TRUE
                 THEN /\ task' = (FileOf(f) :> NewTask("queued")) @@ task
                      /\ pc' = pc
                 ELSE /\ task' = (FileOf(f) :> NewTask("running")) @@ task
                      /\ pc' = "call"
            ELSE UNCHANGED <<task, pc>>
    /\ UNCHANGED <<conf, input, frame, pcaOut, summary>>

\* The loop is exhausted: p.close() in the pool branch, the end otherwise.
BatchLoopEnd ==
    /\ pc = "loop"
    /\ ~Unvisited
    /\ pc' = IF conf.multiProc = TRUE THEN After(LearnPredictBatchOrder, "loop")
             ELSE After(LearnPredictBatchOrder, "join")
    /\ UNCHANGED <<conf, input, frame, pcaOut, visited, task, summary>>

\* p.join(): returns when every queued call has ended
BatchJoin ==
    /\ pc = "join"
    /\ \A n \in DOMAIN task : task[n].st \in Ended
    /\ pc' = After(LearnPredictBatchOrder, "join")
    /\ UNCHANGED <<conf, input, frame, pcaOut, visited, task, summary>>

\* A free worker of the pool takes a queued call.
PoolPick(n) ==
    /\ task[n].st = "queued"
    /\ Cardinality({m \in DOMAIN task : task[m].st \in Active}) < NumCores
    /\ task' = [task EXCEPT ![n].st = "running"]
    /\ UNCHANGED <<conf, input, pc, frame, pcaOut, visited, summary>>

\* Where the caller is after the call ended: the pool keeps the exception in
\* an AsyncResult nobody reads; in the sequential branch it propagates.
AfterCall(ok) == IF conf.multiProc = TRUE THEN pc ELSE IF ok THEN "loop" ELSE "crashed"

\* processSingleBatch, lines 175-225
SingleCompute(n) ==
    /\ task[n].st = "running"
    /\ \E failAt \in {0} \cup CallsOf(Single_body) :
         LET g == RunStmts(task[n].frame, Single_body, 1, failAt)
         IN  IF g.raised # ""
             THEN /\ task' = [task EXCEPT ![n] = EndTask("failed", g.raised)]
                  /\ summary' = Unwind(summary, n, g)
                  /\ pc' = AfterCall(FALSE)
             ELSE /\ task' = [task EXCEPT ![n] = [st |-> "computed", frame |-> g]]
                  /\ UNCHANGED <<summary, pc>>
    /\ UNCHANGED <<conf, input, frame, pcaOut, visited>>

\* with open(summary_filename, "a") as sum_file
SingleOpen(n) ==
    /\ task[n].st = "computed"
    /\ task' = [task EXCEPT ![n].st = "opened"]
    /\ UNCHANGED <<conf, input, pc, frame, pcaOut, visited, summary>>

\* csv_out.writerow(summaryFile): the row goes to the file object's buffer
SingleWriterow(n) ==
    /\ task[n].st = "opened"
    /\ task' = [task EXCEPT ![n].st = "written"]
    /\ UNCHANGED <<conf, input, pc, frame, pcaOut, visited, summary>>

\* sum_file.close(): the buffer is flushed, one append to the file
SingleClose(n) ==
    /\ task[n].st = "written"
    /\ summary' = Append(summary, DataRow(n, task[n].frame.row))
    /\ task' = [task EXCEPT ![n] = EndTask("done", "")]
    /\ pc' = AfterCall(TRUE)
    /\ UNCHANGED <<conf, input, frame, pcaOut, visited>>

Only(S) == [m \in Fam |-> m \in S]

\* The sequential branch is run under every subset of enabled families; the
\* pool branch, whose interleavings do not depend on which learners a call
\* runs, under four of them.
PoolRuns == {AllOff, AllOn, Only({"NN"}), Only({"DNNTF", "NN", "SVM", "KM"})}

BatchConfs ==
    ConfSet([Fam -> BOOLEAN], BOOLEAN, {FALSE}, {FALSE}, {MaxPCAcomp},
            {FALSE}, {FALSE}, {AllOff}, {"absent"})
    \cup ConfSet(PoolRuns, {FALSE}, {FALSE}, {FALSE}, {MaxPCAcomp},
                 {FALSE}, {TRUE}, {AllOff}, {"absent"})

InitBatch ==
    /\ conf \in BatchConfs
    /\ input \in [Cl : {<<1>>}, learnFile : PathForms(TrainName),
                  dir : {Dir(n) : n \in 1..MaxFiles}, npix : {0}]
    /\ pc = LearnPredictBatchOrder[1]
    /\ frame = NewFrame(<<"learnFile">>)
    /\ pcaOut = NoPCA
    /\ visited = <<>>
    /\ task = <<>>
    /\ summary = <<>>

NextBatch ==
    \/ BatchHeader \/ BatchReadLearn \/ BatchLoopNext \/ BatchLoopEnd \/ BatchJoin
    \/ \E n \in DOMAIN task : PoolPick(n)
    \/ \E n \in DOMAIN task : SingleCompute(n)
    \/ \E n \in DOMAIN task : SingleOpen(n)
    \/ \E n \in DOMAIN task : SingleWriterow(n)
    \/ \E n \in DOMAIN task : SingleClose(n)

SpecBatch == InitBatch /\ [][NextBatch]_vars

----------------------------------------------------------------------------
(* LearnPredictMap *)

Map_read == <<Call("readLearnFile", "", <<"learnFile">>, <<"En", "Cl", "A", "YnormXind">>),
              Let(<<"learnFile">>, <<"learnFileRoot">>)>>

Map_readPredMap == <<Call("readPredMap", "", <<"mapFile">>, <<"X", "Y", "R", "Rx">>)>>

Map_init ==
    <<Let(<<>>, <<"type", "i">>),
      Empty(<<"svmPred", "nnPred", "tfPred", "kmPred">>),
      Call("preProcessNormLearningData", "", <<"A", "En", "Cl", "YnormXind", "type">>,
           <<"A", "Cl", "En", "Aorig">>)>>

Map_trainNN == <<Call("trainNN", "NN", trainArgs, <<"clf_nn", "le_nn">>)>>

Map_trainDNNTF == <<Call(DNNTFtrain, "DNNTF", trainArgs, <<"clf_dnntf", "le_dnntf">>)>>

Map_trainKeras ==
    <<Call("trainKeras", "Keras", <<"En", "A", "Cl", "A", "Cl", "learnFileRoot">>,
           <<"model_keras", "le_keras">>)>>

Map_trainSVM == <<Call("trainSVM", "SVM", trainArgs, <<"clf_svm", "le_svm">>)>>

\* for r in R[:]: the loop variable, then lines 265-266
Map_pixel ==
    <<Let(<<"R">>, <<"r">>),
      Call("preProcessNormPredData", "", <<"r", "Rx", "En", "YnormXind", "type">>,
           <<"r", "rorig">>),
      Let(<<>>, <<"type">>)>>

Map_pixel_DNNTF ==
    <<CallStore(DNNTFpred, "DNNTF", <<"cl_dnntf", "le_dnntf", "r", "Cl">>,
                <<"dnntfPred", "temp">>),
      SaveMap("DNN-TF", "DNNTF", "dnntfPred"),
      Let(<<"dnnDef">>, <<>>)>>

Map_pixel_Keras ==
    <<CallStore("predKeras", "Keras", <<"model_keras", "le_keras", "r", "Cl">>,
                <<"kerasPred", "temp">>),
      SaveMap("Keras", "Keras", "kerasPred")>>

Map_pixel_NN ==
    <<CallStore("predNN", "NN", <<"clf_nn", "A", "Cl", "r", "le_nn">>, <<"nnPred", "temp">>),
      SaveMap("NN", "NN", "nnPred"),
      SetFlag("nnDef.alwaysRetrain")>>

\* mutant: the SVM is fitted again for every pixel, as the raw TensorFlow model is
Map_pixel_SVM_retrain ==
    <<Call("trainSVM", "SVM", trainArgs, <<"clf_svm", "le_svm">>),
      CallStore("predSVM", "SVM", <<"clf_svm", "A", "Cl", "En", "r", "le_svm">>,
                <<"svmPred", "temp">>),
      SaveMap("svm", "SVM", "svmPred"),
      SetFlag("svmDef.alwaysRetrain")>>

Map_pixel_SVM ==
    <<CallStore("predSVM", "SVM", <<"clf_svm", "A", "Cl", "En", "r", "le_svm">>,
                <<"svmPred", "temp">>),
      SaveMap("svm", "SVM", "svmPred"),
      SetFlag("svmDef.alwaysRetrain")>>

Map_pixel_TF ==
    <<Call("trainTF", "TF", trainArgs, <<>>),
      CallRet("predTF", "TF", <<"A", "Cl", "r", "learnFileRoot">>, <<"tfPred", "temp">>),
      SaveMap("TF", "TF", "tfPred"),
      SetFlag("tfDef.alwaysRetrain")>>

Map_pixel_KM ==
    <<SetFlag("kmDef.plotKM"),
      CallStore("runKMmain", "KM", <<"A", "Cl", "En", "r", "Aorig", "rorig">>, <<"kmPred">>),
      SaveMap("KM", "KM", "kmPred")>>

Map_plot(m) ==
    CASE m = "DNNTF" -> <<Plot("Deep Neural networks - tensorFlow", m, "dnntfPred")>>
      [] m = "NN" -> <<Plot("Deep Neural networks - sklearn", m, "nnPred")>>
      [] m = "SVM" -> <<Plot("SVM", m, "svmPred")>>
      [] m = "TF" -> <<Plot("TensorFlow", m, "tfPred")>>
      [] m = "KM" -> <<Plot("K-Means Prediction", m, "kmPred")>>

\* The order of the steps of LearnPredictMap; "for" is the head of the pixel
\* loop, which "next" (i += 1) returns to.
LearnPredictMapOrder ==
    <<"readLearnFile", "readPredMap", "init",
      "trainNN", "trainDNNTF", "trainKeras", "trainSVM",
      "for", "pixel", "pxDNNTF", "pxKeras", "pxNN", "pxSVM", "pxTF", "pxKM", "next",
      "plotDNNTF", "plotNN", "plotSVM", "plotTF", "plotKM", "done">>

MapBlock(here, enabled, stmts) ==
    /\ Block(LearnPredictMapOrder, here, enabled, stmts)
    /\ UNCHANGED <<conf, input, pcaOut, visited, task, summary>>

MapReadLearn == MapBlock("readLearnFile", TRUE, Map_read)
MapReadPredMap == MapBlock("readPredMap", TRUE, Map_readPredMap)
MapInit == MapBlock("init", TRUE, Map_init)
MapTrainNN == MapBlock("trainNN", conf.run["NN"] = TRUE, Map_trainNN)
MapTrainDNNTF == MapBlock("trainDNNTF", conf.run["DNNTF"] = TRUE, Map_trainDNNTF)
MapTrainKeras == MapBlock("trainKeras", conf.run["Keras"] = TRUE, Map_trainKeras)
MapTrainSVM == MapBlock("trainSVM", conf.run["SVM"] = TRUE, Map_trainSVM)

\* for r in R[:]: another pixel, or the loop is over
MapFor ==
    /\ pc = "for"
    /\ pc' = IF frame.i < input.npix THEN After(LearnPredictMapOrder, "for") ELSE "plotDNNTF"
    /\ UNCHANGED <<conf, input, frame, pcaOut, visited, task, summary>>

MapPixel == MapBlock("pixel", TRUE, Map_pixel)
MapPixelDNNTF == MapBlock("pxDNNTF", conf.run["DNNTF"] = TRUE, Map_pixel_DNNTF)

\* if dnntfDef.runKeras == True: the flag read is dnntfDef's, not kerasDef's
MapPixelKeras ==
    /\ pc = "pxKeras"
    /\ IF conf.dnntfDef_runKeras = "absent"
       THEN /\ frame' = Raise(frame, "AttributeError")
            /\ pc' = "crashed"
            /\ UNCHANGED <<conf, input, pcaOut, visited, task, summary>>
       ELSE MapBlock("pxKeras", conf.dnntfDef_runKeras = "True", Map_pixel_Keras)

MapPixelNN == MapBlock("pxNN", conf.run["NN"] = TRUE, Map_pixel_NN)
MapPixelSVM == MapBlock("pxSVM", conf.run["SVM"] = TRUE, Map_pixel_SVM)
MapPixelTF == MapBlock("pxTF", conf.run["TF"] = TRUE, Map_pixel_TF)
MapPixelKM == MapBlock("pxKM", conf.run["KM"] = TRUE, Map_pixel_KM)

\* i += 1
MapNext ==
    /\ pc = "next"
    /\ frame' = [frame EXCEPT !.i = @ + 1]
    /\ pc' = "for"
    /\ UNCHANGED <<conf, input, pcaOut, visited, task, summary>>

MapPlotBlock(here, m) ==
    MapBlock(here, conf.plotMap[m] = TRUE /\ conf.run[m] = TRUE, Map_plot(m))

MapPlotDNNTF == MapPlotBlock("plotDNNTF", "DNNTF")
MapPlotNN == MapPlotBlock("plotNN", "NN")
MapPlotSVM == MapPlotBlock("plotSVM", "SVM")
MapPlotTF == MapPlotBlock("plotTF", "TF")
MapPlotKM == MapPlotBlock("plotKM", "KM")

InitMap ==
    /\ conf \in ConfSet([Fam -> BOOLEAN], BOOLEAN, {FALSE}, {FALSE}, {MaxPCAcomp},
                        {FALSE}, {FALSE}, {AllOff, AllOn}, {"absent", "True", "False"})
    /\ input \in [Cl : {<<1>>}, learnFile : {<<>>}, dir : {{}}, npix : 1..MaxPixels]
    /\ pc = LearnPredictMapOrder[1]
    /\ frame = NewFrame(<<"learnFile", "mapFile">>)
    /\ pcaOut = NoPCA
    /\ visited = <<>>
    /\ task = <<>>
    /\ summary = <<>>

NextMap ==
    \/ MapReadLearn \/ MapReadPredMap \/ MapInit
    \/ MapTrainNN \/ MapTrainDNNTF \/ MapTrainKeras \/ MapTrainSVM
    \/ MapFor \/ MapPixel
    \/ MapPixelDNNTF \/ MapPixelKeras \/ MapPixelNN \/ MapPixelSVM \/ MapPixelTF \/ MapPixelKM
    \/ MapNext
    \/ MapPlotDNNTF \/ MapPlotNN \/ MapPlotSVM \/ MapPlotTF \/ MapPlotKM

SpecMap == InitMap /\ [][NextMap]_vars

----------------------------------------------------------------------------
(* Reading the event log *)

TrainFns == {"trainDNNTF", "trainDNNTF2", "trainNN", "trainSVM", "trainTF", "trainKeras"}
PredFns == {"predDNNTF", "predDNNTF2", "predNN", "predSVM", "predTF", "predKeras"}

OpKind(fn) ==
    CASE fn \in TrainFns -> "train"
      [] fn \in PredFns -> "pred"
      [] fn = "runKMmain" -> "run"
      [] OTHER -> "other"

FamEvents(log) == SelectSeq(log, LAMBDA e : e.fam \in Fam)

FamOps(log) == [j \in DOMAIN FamEvents(log) |->
                  <<OpKind(FamEvents(log)[j].fn), FamEvents(log)[j].fam>>]

\* The priority order the specification names
PriorityOrder == <<"DNNTF", "NN", "SVM", "TF", "Keras", "KM">>

RECURSIVE ExpectedOps(_, _)
ExpectedOps(run, k) ==
    IF k > Len(PriorityOrder) THEN <<>>
    ELSE LET m == PriorityOrder[k]
             ops == IF ~run[m] THEN <<>>
                    ELSE IF m = "KM" THEN << <<"run", m>> >>
                    ELSE << <<"train", m>>, <<"pred", m>> >>
         IN  ops \o ExpectedOps(run, k + 1)

PredOutputs(log) == UNION {SeqToSet(log[j].outs) : j \in {n \in DOMAIN log : OpKind(log[n].fn) = "pred"}}

----------------------------------------------------------------------------
(* Properties of LearnPredictFile and runPCA *)

\* C8: in LearnPredictFile the enabled families run in the priority order
\* DNN-variant, generic NN, SVM, raw TensorFlow, Keras, clustering; each is
\* trained on the training set (A, Cl) and then predicts on the prediction
\* input R, a predict never comes before its own train, a disabled family is
\* neither trained nor run, and no call reads the output of a predict.
C8_FileOrder ==
    /\ IsPrefix(FamOps(frame.log), ExpectedOps(conf.run, 1))
    /\ pc = "done" => FamOps(frame.log) = ExpectedOps(conf.run, 1)
    /\ \A j \in DOMAIN frame.log :
         LET e == frame.log[j]
         IN  /\ OpKind(e.fn) = "train" => {"A", "Cl"} \subseteq SeqToSet(e.args)
             /\ OpKind(e.fn) \in {"pred", "run"} => "R" \in SeqToSet(e.args)
             /\ e.fam = "DNNTF" =>
                  (e.fn \in {"trainDNNTF2", "predDNNTF2"} <=> conf.runSkflowDNNTF)
             /\ SeqToSet(e.args) \cap PredOutputs(frame.log) = {}

C8_Witness ==
    /\ pc = "done"
    /\ conf.run = AllOn
    /\ Len(FamOps(frame.log)) = 11

\* C9: runPCA asks for as many principal components as there are distinct
\* labels in Cl when pcaDef.customNumPCAComp is False, and for the configured
\* numPCAcomponents otherwise; LearnPredictFile runs it only when
\* pcaDef.runPCA is set.
C9_PCAComponents ==
    /\ pcaOut.ran =>
         /\ conf.runPCA
         /\ pcaOut.n_components =
              IF conf.customNumPCAComp THEN conf.numPCAcomponents
              ELSE Cardinality(SeqToSet(input.Cl))
    /\ (conf.runPCA /\ pc \in {"readPredFile", "done"}) => pcaOut.ran

C9_Witness ==
    /\ pcaOut.ran
    /\ ~conf.customNumPCAComp
    /\ Cardinality(SeqToSet(input.Cl)) = 2
    /\ Len(input.Cl) = 3
    /\ pcaOut.n_components = 2
    /\ conf.numPCAcomponents # 2

----------------------------------------------------------------------------
(* Properties of LearnPredictBatch *)

FieldFam(name) ==
    CASE name \in {"dnntfPred", "dnntfProb"} -> "DNNTF"
      [] name \in {"nnPred", "nnProb"} -> "NN"
      [] name \in {"svmPred", "svmProb"} -> "SVM"
      [] name \in {"tfPred", "tfProb", "tfAccur"} -> "TF"
      [] name \in {"kerasPred", "kerasProb"} -> "Keras"
      [] name \in {"kmPred"} -> "KM"

Rank(m) == CHOOSE k \in DOMAIN PriorityOrder : PriorityOrder[k] = m

DataRows == {j \in DOMAIN summary : summary[j].kind = "data"}
HeaderRows == {j \in DOMAIN summary : summary[j].kind = "header"}
RowsOf(n) == {j \in DataRows : summary[j].f = n}
FieldsOf(row, m) == {k \in DOMAIN row.fields : FieldFam(row.fields[k]) = m}

\* C1: every data row of the summary starts with the name of a processed
\* file and then holds, for each enabled family and for no other, 2 or 3
\* fields, the families in the priority order DNN-variant, generic NN, SVM,
\* raw TensorFlow, Keras, clustering.
C1_RowLayout ==
    \A j \in DataRows :
      LET row == summary[j]
      IN  /\ row.f \in DOMAIN task
          /\ \A m \in Fam :
               Cardinality(FieldsOf(row, m)) \in (IF conf.run[m] THEN {2, 3} ELSE {0})
          /\ \A a, b \in DOMAIN row.fields :
               a < b => Rank(FieldFam(row.fields[a])) <= Rank(FieldFam(row.fields[b]))

\* C2: the training file is never handed to processSingleBatch, whatever
\* path learnFile names it by, and when the batch is done a file of the
\* directory has been processed iff it matches *.txt and is not the
\* training file.
C2_ProcessedIff ==
    /\ FileOf(input.learnFile) \notin DOMAIN task
    /\ pc = "done" =>
         \A d \in input.dir :
           d \in DOMAIN task <=> (d[2] = "txt" /\ d # FileOf(input.learnFile))

InWriteSection == {n \in DOMAIN task : task[n].st \in {"opened", "written"}}

\* C4: in a parallel batch (learnFile given as the bare name the glob
\* yields) no two calls of processSingleBatch are between the open of the
\* summary file and its close at the same time.
C4_SerializedWrites ==
    (conf.multiProc /\ input.learnFile = <<TrainName>>) => Cardinality(InWriteSection) <= 1

\* C5: the summary holds at most one header row; once a call of
\* processSingleBatch exists (queued or running) the header is the first
\* row of the file, and no data row ever precedes it.
C5_HeaderFirst ==
    /\ Cardinality(HeaderRows) <= 1
    /\ task # <<>> => (Len(summary) >= 1 /\ summary[1] = HeaderRow(input.learnFile))
    /\ \A j \in DataRows : j > 1 /\ HeaderRows = {1}
    /\ pc = "done" => HeaderRows = {1}

\* parallel run, both files written, the second dispatched file's row first
C5_Witness ==
    /\ conf.multiProc
    /\ pc = "done"
    /\ input.learnFile = <<TrainName>>
    /\ visited = << <<TrainName>>, << <<1, "txt">> >>, << <<2, "txt">> >> >>
    /\ Len(summary) = 3
    /\ summary[1].kind = "header"
    /\ summary[2] = DataRow(<<2, "txt">>, <<"nnPred", "nnProb">>)
    /\ summary[3] = DataRow(<<1, "txt">>, <<"nnPred", "nnProb">>)

\* C6: a call of processSingleBatch that raised left no row for its file; a
\* row of the summary comes from a call that returned, once per file, and
\* holds fields of every enabled family; in the pool a raising call does not
\* stop the batch: when it is done every dispatched call has ended, and
\* every call that returned has its row.
C6_NoPartialRow ==
    /\ \A n \in DOMAIN task : task[n].st = "failed" => RowsOf(n) = {}
    /\ \A j \in DataRows :
         /\ summary[j].f \in DOMAIN task
         /\ task[summary[j].f].st = "done"
         /\ RowsOf(summary[j].f) = {j}
         /\ \A m \in Fam : conf.run[m] => FieldsOf(summary[j], m) # {}
    /\ (conf.multiProc /\ task # <<>>) => pc # "crashed"
    /\ (conf.multiProc /\ pc = "done") =>
         \A n \in DOMAIN task :
           /\ task[n].st \in Ended
           /\ task[n].st = "done" => Cardinality(RowsOf(n)) = 1

\* pool run: the learner raised for one file after the other file's call
\* had started, and the other file's row is in the summary
C6_Witness ==
    /\ conf.multiProc
    /\ pc = "done"
    /\ conf.run = Only({"DNNTF", "NN", "SVM", "KM"})
    /\ \E a, b \in DOMAIN task :
         /\ task[a].st = "failed"
         /\ task[a].frame.raised = "Error"
         /\ task[b].st = "done"
         /\ Cardinality(RowsOf(b)) = 1
         /\ RowsOf(a) = {}

----------------------------------------------------------------------------
(* Properties of LearnPredictMap *)

Pixels == 0..(input.npix - 1)

PosOf(order, x) == CHOOSE j \in DOMAIN order : order[j] = x

\* the function has reached the head of the pixel loop
LoopReached == pc \in SeqToSet(LearnPredictMapOrder) /\
               PosOf(LearnPredictMapOrder, pc) >= PosOf(LearnPredictMapOrder, "for")

\* the pixel loop is over
LoopOver == pc \in SeqToSet(LearnPredictMapOrder) /\
            PosOf(LearnPredictMapOrder, pc) >= PosOf(LearnPredictMapOrder, "plotDNNTF")

\* the run ended and no loader, preprocessor, learner or sink raised
EndedByItself ==
    \/ pc = "done"
    \/ pc = "crashed" /\ frame.raised \in {"NameError", "AttributeError"}

Entries(m, i) == {j \in DOMAIN frame.sink : frame.sink[j].fam = m /\ frame.sink[j].i = i}

\* C3: the map sink never holds two entries for one (model, pixel) pair nor
\* an entry of a disabled family, and when the run has ended it holds exactly
\* one entry for every enabled family and every pixel of the map.
C3_OneEntryPerPair ==
    /\ \A m \in Fam : \A i \in Pixels :
         Cardinality(Entries(m, i)) <= (IF conf.run[m] THEN 1 ELSE 0)
    /\ EndedByItself =>
         \A m \in Fam : conf.run[m] => \A i \in Pixels : Cardinality(Entries(m, i)) = 1

TrainIdx(m) == {j \in DOMAIN frame.log :
                  frame.log[j].fam = m /\ OpKind(frame.log[j].fn) = "train"}

RunIdx == {j \in DOMAIN frame.log : frame.log[j].fn = "runKMmain"}

\* the place in the log of the first statement of the pixel loop
LoopStart ==
    LET S == {j \in DOMAIN frame.log : frame.log[j].fn = "preProcessNormPredData"}
    IN  IF S = {} THEN Len(frame.log) + 1 ELSE CHOOSE j \in S : \A k \in S : j <= k

\* C7 as stated: every enabled family with a train operation has been
\* trained exactly once when the pixel loop is reached, and no train
\* operation is invoked inside the loop.
C7_TrainedOnce ==
    /\ LoopReached =>
         \A m \in Fam \ {"KM"} : conf.run[m] => Cardinality(TrainIdx(m)) = 1
    /\ \A m \in Fam : \A j \in TrainIdx(m) : j < LoopStart

\* C7 as amended: generic NN, DNN-variant, Keras and SVM are each trained
\* exactly once when enabled (never when disabled), before the pixel loop and
\* on the training set (A, Cl); raw TensorFlow is trained only inside the
\* loop, at most once per pixel, and once for every pixel in a run that
\* completes; clustering has no train step of its own: runKMmain is called
\* inside the loop only, at most once per pixel.
C7_TrainedOnceExceptTF ==
    /\ \A m \in {"NN", "DNNTF", "Keras", "SVM"} :
         /\ Cardinality(TrainIdx(m)) <= (IF conf.run[m] THEN 1 ELSE 0)
         /\ (conf.run[m] /\ LoopReached) => Cardinality(TrainIdx(m)) = 1
         /\ \A j \in TrainIdx(m) :
              j < LoopStart /\ {"A", "Cl"} \subseteq SeqToSet(frame.log[j].args)
    /\ \A j \in TrainIdx("TF") :
         /\ conf.run["TF"]
         /\ j > LoopStart
         /\ {"A", "Cl"} \subseteq SeqToSet(frame.log[j].args)
         /\ \A k \in TrainIdx("TF") : frame.log[k].i = frame.log[j].i => k = j
    /\ (conf.run["TF"] /\ pc = "done") => Cardinality(TrainIdx("TF")) = input.npix
    /\ \A j \in RunIdx :
         /\ conf.run["KM"]
         /\ j > LoopStart
         /\ \A k \in RunIdx : frame.log[k].i = frame.log[j].i => k = j

C7_Witness ==
    /\ pc = "done"
    /\ input.npix = 2
    /\ conf.run = Only({"NN", "SVM", "TF"})
    /\ Cardinality(TrainIdx("TF")) = 2
    /\ Cardinality(TrainIdx("NN")) = 1
    /\ Cardinality(TrainIdx("SVM")) = 1

\* the name LearnPredictMap keeps a family's predictions under
PredName(m) ==
    CASE m = "DNNTF" -> "dnntfPred"
      [] m = "NN" -> "nnPred"
      [] m = "SVM" -> "svmPred"
      [] m = "TF" -> "tfPred"
      [] m = "Keras" -> "kerasPred"
      [] m = "KM" -> "kmPred"

OwnPredictions(m) == [j \in 1..input.npix |-> Ret(m, j - 1)]

\* what the name of family m refers to
ArrayOf(m) ==
    IF PredName(m) \notin DOMAIN frame.env THEN <<>>
    ELSE IF frame.env[PredName(m)] = ArrRef THEN frame.arr
    ELSE <<frame.env[PredName(m)]>>

\* C10: when the pixel loop is over, the array of each enabled family among
\* generic NN, SVM and clustering holds at index i that family's own
\* prediction for pixel i, and every plotMaps call was given the predictions
\* of the family it names.
C10_OwnArray ==
    LoopOver =>
      /\ \A m \in {"NN", "SVM", "KM"} : conf.run[m] => ArrayOf(m) = OwnPredictions(m)
      /\ \A j \in DOMAIN frame.plots :
           frame.plots[j].data = OwnPredictions(frame.plots[j].fam)

====
